---- MODULE Spec2Model ----
(***************************************************************************)
(* lleaves: code generation of a LightGBM forest into LLVM IR              *)
(* (compiler/codegen/codegen.py), the AST it reads (compiler/ast/nodes.py) *)
(* and the JIT driver's object cache (llvm_binding.py).                    *)
(*                                                                         *)
(* The emitted module is modelled as data: functions hold basic blocks,    *)
(* blocks hold SSA instructions in emission order and a terminator.  The   *)
(* emitted code is then run by an interpreter of that IR.                  *)
(***************************************************************************)
EXTENDS Integers, Sequences, FiniteSets, TLC

VARIABLES
    forest,     \* the Forest handed to gen_forest
    module,     \* the ir.Module gen_forest populates
    status,     \* "new" | "ok" | "ValueError" | "IndexError" | "AttributeError"
    data,       \* row-major buffer of f64 passed to forest_root
    out,        \* output buffer passed to forest_root
    writes,     \* number of stores the emitted code made to each out index
    calls,      \* the invocations of forest_root: range, position, registers
    slot,       \* the alloca'd loop counter of each invocation
    row,        \* the row last scored on its own (tree by tree)
    treeOut,    \* what each tree_<idx> returned for that row
    visited,    \* the blocks each tree function ran for that row
    out0,       \* the out buffer as the caller passed it
    cacheFile,  \* content of the file at cache_path (<<>> when absent)
    engines     \* the execution engines compile_module_to_asm returned

vars == <<forest, module, status, data, out, writes, calls, slot, row, treeOut,
          visited, out0, cacheFile, engines>>

(***************************************************************************)
(* Values of the IR.  One record shape for every type:                     *)
(*   f64/f32: nan, neg, n = magnitude  (so -0.0 is neg with n = 0)         *)
(*   i32/i1 : n (two's complement value)                                   *)
(*   ptr    : f = the buffer, n = the element offset                       *)
(*   vec    : xs = the elements                                            *)
(*   a float no arithmetic of the model computes (exp, log, a quotient):   *)
(*            f = the operation, xs = its operands                         *)
(***************************************************************************)
IntMin == -2147483647 - 1
IntMax == 2147483647

Value(ty, n, nan, neg, f, xs) ==
    [ty |-> ty, n |-> n, nan |-> nan, neg |-> neg, f |-> f, xs |-> xs]

\* codegen.py:23  dconst(value)
dconst(x) == Value("f64", IF x < 0 THEN -x ELSE x, FALSE, x < 0, "", <<>>)
\* codegen.py:19  fconst(value)
fconst(x) == Value("f32", IF x < 0 THEN -x ELSE x, FALSE, x < 0, "", <<>>)
\* codegen.py:15  iconst(value)
iconst(x) == Value("i32", x, FALSE, FALSE, "", <<>>)

NaN     == Value("f64", 0, TRUE, FALSE, "", <<>>)
NegZero == Value("f64", 0, FALSE, TRUE, "", <<>>)
I1(b)   == Value("i1", IF b THEN 1 ELSE 0, FALSE, FALSE, "", <<>>)
Ptr(buf, off) == Value("ptr", off, FALSE, FALSE, buf, <<>>)
Vec(xs) == Value("vec", 0, FALSE, FALSE, "", xs)
Sym(f, xs) == Value("f64", 0, FALSE, FALSE, f, xs)
Void    == Value("void", 0, FALSE, FALSE, "", <<>>)

IsNum(v) == v.f = "" /\ ~v.nan
Num(v) == IF v.neg THEN -v.n ELSE v.n

\* two's complement i32 arithmetic on values kept in IntMin..IntMax
Add32(a, b) ==
    IF b > 0 /\ a > IntMax - b THEN (a + IntMin) + (b + IntMin)
    ELSE IF b < 0 /\ a < IntMin - b THEN (a - IntMin) + (b - IntMin)
    ELSE a + b
Mul32(a, b) == a * b
\* unsigned order of two i32 bit patterns
ULT(a, b) == IF (a >= 0) = (b >= 0) THEN a < b ELSE a >= 0
\* a bit pattern with the top bit set is the unsigned number 2^31 + (a - IntMin)
UDiv(a, d) ==
    IF a >= 0 THEN a \div d
    ELSE (IntMax \div d) + ((a - IntMin) \div d)
         + (((IntMax % d) + 1 + ((a - IntMin) % d)) \div d)
URem(a, d) ==
    IF a >= 0 THEN a % d
    ELSE ((IntMax % d) + 1 + ((a - IntMin) % d)) % d
LShr(a, s) ==
    IF s = 0 THEN a
    ELSE IF s >= 32 THEN 0
    ELSE IF s = 31 THEN (IF a < 0 THEN 1 ELSE 0)
    ELSE IF a >= 0 THEN a \div (2 ^ s)
    ELSE (a - IntMin) \div (2 ^ s) + 2 ^ (31 - s)

\* IEEE-754 comparison of two floats: unordered is true when either is a NaN
Rel(p, a, b) ==
    CASE p = "<=" -> Num(a) <= Num(b)
      [] p = "==" -> Num(a) = Num(b)
      [] p = ">"  -> Num(a) > Num(b)
      [] p = "<"  -> Num(a) < Num(b)
FCmpOrdered(p, a, b) == ~a.nan /\ ~b.nan /\ Rel(p, a, b)
FCmpUnordered(p, a, b) == a.nan \/ b.nan \/ Rel(p, a, b)

\* fadd, round to nearest: exact on the integers of the model; the sum of two
\* zeros or of opposite numbers is +0.0 unless both operands are negative zeros
FAdd(a, b) ==
    IF a.nan \/ b.nan THEN NaN
    ELSE IF ~IsNum(a) \/ ~IsNum(b) THEN Sym("fadd", <<a, b>>)
    ELSE IF Num(a) + Num(b) = 0
         THEN (IF a.neg /\ b.neg THEN NegZero ELSE dconst(0))
         ELSE dconst(Num(a) + Num(b))
FMul(a, b) ==
    IF a.nan \/ b.nan THEN NaN
    ELSE IF ~IsNum(a) \/ ~IsNum(b) THEN Sym("fmul", <<a, b>>)
    ELSE Value("f64", a.n * b.n, FALSE, a.neg # b.neg, "", <<>>)
\* a quotient is kept as a term: the model's floats are integers
FDiv(a, b) == Sym("fdiv", <<a, b>>)
CopySign(a, b) == [a EXCEPT !.neg = b.neg]
\* fptosi f64 -> i32, as x86 cvttsd2si does it: a NaN and every value out of
\* range become INT_MIN (codegen.py:254-255); the model's floats are integers
FpToSi(v) ==
    IF v.nan \/ ~IsNum(v) THEN iconst(IntMin)
    ELSE iconst(Num(v))

(***************************************************************************)
(* The AST (compiler/ast/nodes.py).  A tree holds its nodes in a sequence  *)
(* and a node names its children by their position in it (the source's    *)
(* object references); position 0 is "no child".                           *)
(***************************************************************************)
\* nodes.py:79-85  LeafNode(idx, value)
LeafNode(idx, value) ==
    [is_leaf |-> TRUE, idx |-> idx, value |-> value,
     split_feature |-> 0, threshold |-> dconst(0),
     decision_type |-> [is_categorical |-> FALSE, is_default_left |-> FALSE,
                        missing_type |-> "MNone"],
     cat_threshold |-> <<>>, left |-> 0, right |-> 0]

\* nodes.py:37-67  DecisionNode(...) after add_children and finalize_categorical
DecisionNode(idx, split_feature, threshold, decision_type, cat_threshold, left, right) ==
    [is_leaf |-> FALSE, idx |-> idx, value |-> dconst(0),
     split_feature |-> split_feature, threshold |-> threshold,
     decision_type |-> decision_type,
     cat_threshold |-> cat_threshold, left |-> left, right |-> right]

\* nodes.py:13-21  Tree(idx, root_node, features, class_id)
Tree(idx, nodes, root_node, features) ==
    [idx |-> idx, nodes |-> nodes, root_node |-> root_node, features |-> features,
     class_id |-> 0]

\* nodes.py:24-34  Forest(trees, features, n_classes, objective_func, objective_func_config)
Forest(trees, features, objective_func, objective_func_config) ==
    [trees |-> trees, features |-> features, n_classes |-> 1,
     objective_func |-> objective_func,
     objective_func_config |-> objective_func_config]

\* nodes.py:32-34  Forest.n_args
n_args(f) == Len(f.features)

\* nodes.py:75-76, 84-85  str(node): "node_<idx>" or "leaf_<idx>"
NodeName(node) == [kind |-> IF node.is_leaf THEN "leaf" ELSE "node", idx |-> node.idx]
\* nodes.py:20-21  str(tree): "tree_<idx>"
TreeName(tree) == [kind |-> "tree", idx |-> tree.idx]

(***************************************************************************)
(* llvmlite's IR as data.  An operand is a constant, a function argument   *)
(* or the result of an earlier instruction (block b, instruction i).       *)
(***************************************************************************)
C(v)    == [k |-> "const", b |-> 0, i |-> 0, c |-> v]
A(i)    == [k |-> "arg", b |-> 0, i |-> i, c |-> Void]
R(b, i) == [k |-> "reg", b |-> b, i |-> i, c |-> Void]
NoOperand == [k |-> "none", b |-> 0, i |-> 0, c |-> Void]

NoName == [kind |-> "", idx |-> 0]
Instr(op, p, a) == [op |-> op, p |-> p, a |-> a, callee |-> NoName]
\* builder.call(fn, args)
Call(callee, a) == [op |-> "call", p |-> "", a |-> a, callee |-> callee]
Intrinsic(name) == [kind |-> name, idx |-> 0]
Term(op, x, t, f) == [op |-> op, x |-> x, t |-> t, f |-> f]
Event(ev, b) == [ev |-> ev, b |-> b]

\* ir.Function(module, type, name)
Function(name, argtys) ==
    [name |-> name, argtys |-> argtys, blocks |-> <<>>, log |-> <<>>]

\* func.append_basic_block(name): the new block is the last of the function
append_basic_block(func, name) ==
    [func EXCEPT
        !.blocks = Append(@, [name |-> name, instrs |-> <<>>, term |-> <<>>,
                              builders |-> 0]),
        !.log = Append(@, Event("append", Len(func.blocks) + 1))]
NewBlock(func) == Len(func.blocks) + 1

\* ir.IRBuilder(block)
IRBuilder(func, b) ==
    [func EXCEPT !.blocks[b].builders = @ + 1,
                 !.log = Append(@, Event("builder", b))]

\* builder.<instruction>(...): appended to the builder's block
Emit(func, b, ins) ==
    [func EXCEPT !.blocks[b].instrs = Append(@, ins),
                 !.log = Append(@, Event("instr", b))]
\* the value the last builder call on block b returned
Last(func, b) == R(b, Len(func.blocks[b].instrs))

\* builder.ret / cbranch / branch / ret_void
Terminate(func, b, term) ==
    [func EXCEPT !.blocks[b].term = Append(@, term),
                 !.log = Append(@, Event("term", b))]

\* Python's  0.0 <= threshold  and  threshold < 0.0  on floats
PyLe(a, b) == FCmpOrdered("<=", a, b)
PyLt(a, b) == FCmpOrdered("<", a, b)

\* the value the k-th builder call made next on block b will return
Reg(func, b, k) == R(b, Len(func.blocks[b].instrs) + k)

\* successive builder calls on block b
EmitAll(func, b, instrs) ==
    [func EXCEPT !.blocks[b].instrs = @ \o instrs,
                 !.log = @ \o [i \in 1..Len(instrs) |-> Event("instr", b)]]

\* codegen.py:87-90
gen_leaf_node(func, node_block, leaf) ==
    Terminate(IRBuilder(func, node_block), node_block,
              Term("ret", C(leaf.value), 0, 0))

\* codegen.py:280-319 with the comparison computed wrongly for a missing zero:
\* the explicit is_missing test is dropped
populate_numerical_node_block_no_missing(func, b, node) ==
    LET val == A(node.split_feature)
        thresh == C(node.threshold)
        default_left == IF node.decision_type.missing_type = "MNone"
                        THEN PyLe(dconst(0), node.threshold)
                        ELSE node.decision_type.is_default_left
    IN  IF default_left
        THEN Emit(func, b, Instr("fcmp_unordered", "<=", <<val, thresh>>))
        ELSE Emit(func, b, Instr("fcmp_ordered", "<=", <<val, thresh>>))

\* codegen.py:280-319
populate_numerical_node_block(func, b, node) ==
    LET val == A(node.split_feature)
        thresh == C(node.threshold)
        missing_t == node.decision_type.missing_type
        default_left == IF node.decision_type.missing_type = "MNone"
                        THEN PyLe(dconst(0), node.threshold)
                        ELSE node.decision_type.is_default_left
        is_missing == Reg(func, b, 1)
    IN  IF default_left
        THEN IF missing_t # "MZero"
                \/ (missing_t = "MZero" /\ PyLe(dconst(0), node.threshold))
             THEN Emit(func, b, Instr("fcmp_unordered", "<=", <<val, thresh>>))
             ELSE EmitAll(func, b,
                    <<Instr("fcmp_unordered", "==", <<val, C(fconst(0))>>),
                      Instr("fcmp_unordered", "<=", <<val, thresh>>),
                      Instr("or_", "", <<is_missing, Reg(func, b, 2)>>)>>)
        ELSE IF missing_t # "MZero"
                \/ (missing_t = "MZero" /\ PyLt(node.threshold, dconst(0)))
             THEN Emit(func, b, Instr("fcmp_ordered", "<=", <<val, thresh>>))
             ELSE EmitAll(func, b,
                    <<Instr("fcmp_unordered", "==", <<val, C(fconst(0))>>),
                      Instr("fcmp_ordered", ">", <<val, thresh>>),
                      Instr("or_", "", <<is_missing, Reg(func, b, 2)>>),
                      Instr("not_", "", <<Reg(func, b, 3)>>)>>)

\* codegen.py:266-276  the instructions of the bitset-compare block
bitset_compare(func, bitset_comp_block, node) ==
    LET val == A(node.split_feature)
        idx == Reg(func, bitset_comp_block, 1)
        bit_vecs == C(Vec([i \in 1..Len(node.cat_threshold) |->
                              iconst(node.cat_threshold[i])]))
        shift == Reg(func, bitset_comp_block, 2)
        bit_vec == Reg(func, bitset_comp_block, 3)
        bit_entry == Reg(func, bitset_comp_block, 4)
    IN  EmitAll(func, bitset_comp_block,
            <<Instr("udiv", "", <<val, C(iconst(32))>>),
              Instr("urem", "", <<val, C(iconst(32))>>),
              Instr("extract_element", "", <<bit_vecs, idx>>),
              Instr("lshr", "", <<bit_vec, shift>>),
              Instr("trunc", "i1", <<bit_entry>>)>>)

\* codegen.py:248-277 with a range check that covers the first word only
populate_categorical_node_block_one_word(func, b, bitset_comp_block, node, right_block) ==
    bitset_compare(
        Terminate(Emit(func, b, Instr("icmp_unsigned", "<",
                           <<A(node.split_feature), C(iconst(32))>>)),
                  b, Term("cbranch", Reg(func, b, 1), bitset_comp_block, right_block)),
        bitset_comp_block, node)

\* codegen.py:248-277; the comparison it returns is the last instruction of
\* the bitset-compare block
populate_categorical_node_block(func, b, bitset_comp_block, node, right_block) ==
    bitset_compare(
        Terminate(Emit(func, b, Instr("icmp_unsigned", "<",
                           <<A(node.split_feature),
                             C(iconst(32 * Len(node.cat_threshold)))>>)),
                  b, Term("cbranch", Reg(func, b, 1), bitset_comp_block, right_block)),
        bitset_comp_block, node)

\* codegen.py:98  with the two leaves taken in the wrong order by the select
fused_terminal_swapped(func, b, comp, left, right) ==
    Terminate(Emit(func, b, Instr("select", "",
                                  <<comp, C(right.value), C(left.value)>>)),
              b, Term("ret", Reg(func, b, 1), 0, 0))

\* codegen.py:122-124  select of the two leaf constants, then ret
fused_terminal(func, b, comp, left, right) ==
    Terminate(Emit(func, b, Instr("select", "",
                                  <<comp, C(left.value), C(right.value)>>)),
              b, Term("ret", Reg(func, b, 1), 0, 0))

\* codegen.py:98 as written, and never fused
never_fused(left, right) == FALSE
\* codegen.py:98  is_fused_double_leaf_node
is_fused_double_leaf_node(left, right) == left.is_leaf /\ right.is_leaf

RECURSIVE gen_node(_, _, _, _, _)
\* codegen.py:93-132.  fuse is TRUE in the program; with FALSE the node is
\* emitted by the branch of lines 106-108 and 126 whatever its children are
gen_decision_node(func, node_block, tree, p, fuse) ==
    LET node == tree.nodes[p]
        left == tree.nodes[tree.nodes[p].left]
        right == tree.nodes[tree.nodes[p].right]
        is_cat == tree.nodes[p].decision_type.is_categorical
        fused == fuse /\ is_fused_double_leaf_node(tree.nodes[tree.nodes[p].left],
                                                   tree.nodes[tree.nodes[p].right])
        \* lines 99-108: the child blocks
        child_blocks(f) ==
            IF fused
            THEN IF is_cat THEN append_basic_block(f, NodeName(right)) ELSE f
            ELSE append_basic_block(append_basic_block(f, NodeName(left)),
                                    NodeName(right))
        left_block == IF fused THEN 0 ELSE NewBlock(func)
        right_block == IF fused THEN (IF is_cat THEN NewBlock(func) ELSE 0)
                       ELSE NewBlock(func) + 1
        \* lines 111-119: the comparison
        bitset_comp_block ==
            NewBlock(func) + (IF fused THEN (IF is_cat THEN 1 ELSE 0) ELSE 2)
        comparison(f) ==
            IF is_cat
            THEN populate_categorical_node_block(
                     IRBuilder(append_basic_block(f,
                         [kind |-> "cat_bitset_comp", idx |-> node.idx]),
                         bitset_comp_block),
                     node_block, bitset_comp_block, node, right_block)
            ELSE populate_numerical_node_block(f, node_block, node)
        bb == IF is_cat THEN bitset_comp_block ELSE node_block
        \* lines 122-126: the terminal statement
        terminal(f) ==
            IF fused
            THEN fused_terminal(f, bb, Last(f, bb), left, right)
            ELSE Terminate(f, bb, Term("cbranch", Last(f, bb), left_block, right_block))
        \* lines 129-132: the child blocks are populated
        left_child(f) ==
            IF left_block # 0
            THEN gen_node(f, left_block, tree, node.left, fuse) ELSE f
        right_child(f) ==
            IF right_block # 0
            THEN gen_node(f, right_block, tree, node.right, fuse) ELSE f
    IN  right_child(left_child(terminal(comparison(
            child_blocks(IRBuilder(func, node_block))))))

\* codegen.py:79-84
gen_node(func, node_block, tree, p, fuse) ==
    IF tree.nodes[p].is_leaf
    THEN gen_leaf_node(func, node_block, tree.nodes[p])
    ELSE gen_decision_node(func, node_block, tree, p, fuse)

\* codegen.py:73-76
gen_tree(tree, tree_func, fuse) ==
    gen_node(append_basic_block(tree_func, NodeName(tree.nodes[tree.root_node])),
             1, tree, tree.root_node, fuse)

\* codegen.py:59-66  make_tree: the function is declared, then populated
make_tree(tree) ==
    gen_tree(tree,
             Function(TreeName(tree),
                      [i \in 1..Len(tree.features) |->
                          IF tree.features[i].is_categorical THEN "i32" ELSE "f64"]),
             TRUE)


(***************************************************************************)
(* The objective (codegen.py:194-245).  objective_func_config is None or a *)
(* string; a string is the sequence of its tokens, ":" being a token.      *)
(***************************************************************************)
None == [none |-> TRUE, toks |-> <<>>]
Str(toks) == [none |-> FALSE, toks |-> toks]

\* str.split(":")[1]: the text between the first and the second ":"
Colons(toks) == {i \in 1..Len(toks) : toks[i] = ":"}
FirstColon(toks) == CHOOSE i \in Colons(toks) : \A j \in Colons(toks) : i <= j
SplitSecond(toks) ==
    LET p1 == FirstColon(toks)
        after == {i \in Colons(toks) : i > p1}
        p2 == IF after = {} THEN Len(toks) + 1
              ELSE CHOOSE i \in after : \A j \in after : i <= j
    IN  SubSeq(toks, p1 + 1, p2 - 1)

\* float(s): the numerals of the model, anything else raises ValueError
Numerals == {"2.0", "1.0", "0.0", "-1.0"}
FloatOf(tok) ==
    CASE tok = "2.0" -> 2 [] tok = "1.0" -> 1 [] tok = "0.0" -> 0 [] tok = "-1.0" -> -1
IsFloat(toks) == Len(toks) = 1 /\ toks[1] \in Numerals

\* Python's truth value of the config and  "sqrt" in objective_config
Truthy(config) == ~config.none /\ config.toks # <<>>
Contains(config, tok) == \E i \in 1..Len(config.toks) : config.toks[i] = tok

Raised(func, err) == [func |-> func, res |-> NoOperand, err |-> err]
Returned(func, res) == [func |-> func, res |-> res, err |-> ""]

\* codegen.py:208-214  the instructions of the sigmoid
sigmoid_instrs(func, b, input, alpha) ==
    Returned(EmitAll(func, b,
                 <<Instr("fmul", "", <<C(dconst(-alpha)), input>>),
                   Call(Intrinsic("llvm.exp"), <<Reg(func, b, 1)>>),
                   Instr("fadd", "", <<C(dconst(1)), Reg(func, b, 2)>>),
                   Instr("fdiv", "", <<C(dconst(1)), Reg(func, b, 3)>>)>>),
             Reg(func, b, 4))

\* codegen.py:206-214 accepting any alpha
populate_sigmoid_unchecked(func, b, input, alpha) ==
    sigmoid_instrs(func, b, input, alpha)

\* codegen.py:206-214  _populate_sigmoid(alpha): 1 / (1 + exp(-alpha * x))
populate_sigmoid(func, b, input, alpha) ==
    IF alpha <= 0 THEN Raised(func, "ValueError: sigmoid")
    ELSE sigmoid_instrs(func, b, input, alpha)

\* codegen.py:194-245
populate_objective_func_block(func, b, input, objective, objective_config) ==
    IF objective = "binary"
    THEN IF objective_config.none THEN Raised(func, "AttributeError")
         ELSE IF Colons(objective_config.toks) = {} THEN Raised(func, "IndexError")
         ELSE IF ~IsFloat(SplitSecond(objective_config.toks))
              THEN Raised(func, "ValueError: float")
         ELSE populate_sigmoid(func, b, input,
                               FloatOf(SplitSecond(objective_config.toks)[1]))
    ELSE IF objective \in {"xentropy", "cross_entropy"}
    THEN populate_sigmoid(func, b, input, 1)
    ELSE IF objective \in {"xentlambda", "cross_entropy_lambda"}
    THEN Returned(EmitAll(func, b,
                      <<Call(Intrinsic("llvm.exp"), <<input>>),
                        Instr("fadd", "", <<C(dconst(1)), Reg(func, b, 1)>>),
                        Call(Intrinsic("llvm.log"), <<Reg(func, b, 2)>>)>>),
                  Reg(func, b, 3))
    ELSE IF objective \in {"poisson", "gamma", "tweedie"}
    THEN Returned(Emit(func, b, Call(Intrinsic("llvm.exp"), <<input>>)),
                  Reg(func, b, 1))
    ELSE IF objective \in {"regression", "regression_l1", "huber", "fair",
                           "quantile", "mape"}
    THEN IF Truthy(objective_config) /\ Contains(objective_config, "sqrt")
         THEN Returned(EmitAll(func, b,
                           <<Instr("fmul", "", <<input, input>>),
                             Call(Intrinsic("llvm.copysign"),
                                  <<Reg(func, b, 1), input>>)>>),
                       Reg(func, b, 2))
         ELSE Returned(func, input)
    ELSE IF objective \in {"lambdarank", "rank_xendcg", "custom"}
    THEN Returned(func, input)
    ELSE Raised(func, "ValueError: objective")

(***************************************************************************)
(* forest_root (codegen.py:135-191).  Its arguments are data, out,         *)
(* start_index and end_index: A(0) .. A(3).                                 *)
(***************************************************************************)
SetupBlock == 1
ConditionBlock == 2
CoreBlock == 3
TermBlock == 4
BlockName(kind) == [kind |-> kind, idx |-> 0]

\* codegen.py:142  loop_iter: the pointer the alloca returned
loop_iter == R(SetupBlock, 1)
\* codegen.py:160  loop_iter_reg: the first load of the loop core
loop_iter_reg == R(CoreBlock, 1)

RECURSIVE EmitPtrs(_, _, _, _, _)
\* codegen.py:164-165: the generator idx is consumed by the list of geps, so
\* each add is followed by its gep
EmitPtrs(func, b, k, n, iter_mul_nargs) ==
    IF k = n THEN func
    ELSE EmitPtrs(EmitAll(func, b,
                      <<Instr("add", "", <<iter_mul_nargs, C(iconst(k))>>),
                        Instr("gep", "", <<A(0), Reg(func, b, 1)>>)>>),
                  b, k + 1, n, iter_mul_nargs)

RECURSIVE EmitLoads(_, _, _, _, _, _)
\* codegen.py:167-172: args, with the categorical inputs cast to integer;
\* raw_ptrs[k] is instruction first_ptr + 2k of the block
EmitLoads(func, b, k, features, first_ptr, args) ==
    IF k = Len(features) THEN [func |-> func, args |-> args]
    ELSE IF features[k + 1].is_categorical
    THEN EmitLoads(EmitAll(func, b,
                       <<Instr("load", "", <<R(b, first_ptr + 2 * k)>>),
                         Instr("fptosi", "i32", <<Reg(func, b, 1)>>)>>),
                   b, k + 1, features, first_ptr, Append(args, Reg(func, b, 2)))
    ELSE EmitLoads(Emit(func, b, Instr("load", "", <<R(b, first_ptr + 2 * k)>>)),
                   b, k + 1, features, first_ptr, Append(args, Reg(func, b, 1)))

\* codegen.py:175-178 with the loop over tree_funcs[1:] left out
EmitCalls_first_only(func, b, k, tree_funcs, args, res) == [func |-> func, res |-> res]

RECURSIVE EmitCalls(_, _, _, _, _, _)
\* codegen.py:175-178: for func in tree_funcs[1:]
EmitCalls(func, b, k, tree_funcs, args, res) ==
    IF k > Len(tree_funcs) THEN [func |-> func, res |-> res]
    ELSE EmitCalls(EmitAll(func, b,
                       <<Call(tree_funcs[k], args),
                         Instr("fadd", "", <<Reg(func, b, 1), res>>)>>),
                   b, k + 1, tree_funcs, args, Reg(func, b, 2))

\* codegen.py:183-186 without the branch back to the loop condition
core_tail_unterminated(func, res, ptr) ==
    EmitAll(func, CoreBlock,
        <<Instr("store", "", <<res, ptr>>),
          Instr("add", "", <<loop_iter_reg, C(iconst(1))>>),
          Instr("store", "", <<Reg(func, CoreBlock, 2), loop_iter>>)>>)

\* codegen.py:183-186: the result is stored and the counter incremented
core_tail(func, res, ptr) ==
    Terminate(EmitAll(func, CoreBlock,
                  <<Instr("store", "", <<res, ptr>>),
                    Instr("add", "", <<loop_iter_reg, C(iconst(1))>>),
                    Instr("store", "", <<Reg(func, CoreBlock, 2), loop_iter>>)>>),
              CoreBlock, Term("branch", NoOperand, ConditionBlock, 0))

\* codegen.py:150 with <= for <
loop_condition_inclusive(func, loaded) ==
    Emit(func, ConditionBlock, Instr("icmp_signed", "<=", <<loaded, A(3)>>))

\* codegen.py:150  icmp_signed("<", load(loop_iter), end_index)
loop_condition(func, loaded) ==
    Emit(func, ConditionBlock, Instr("icmp_signed", "<", <<loaded, A(3)>>))

\* codegen.py:139-146  the setup block
setup_block(root_func) ==
    Terminate(
        append_basic_block(
            EmitAll(IRBuilder(append_basic_block(root_func, BlockName("setup")),
                              SetupBlock),
                    SetupBlock,
                    <<Instr("alloca", "loop-idx", <<>>),
                      Instr("store", "", <<A(2), loop_iter>>)>>),
            BlockName("loop-condition")),
        SetupBlock, Term("branch", NoOperand, ConditionBlock, 0))

\* codegen.py:149-153  the condition block
condition_block(func) ==
    Terminate(
        append_basic_block(
            append_basic_block(
                loop_condition(Emit(IRBuilder(func, ConditionBlock), ConditionBlock,
                                    Instr("load", "", <<loop_iter>>)),
                               R(ConditionBlock, 1)),
                BlockName("loop-core")),
            BlockName("term")),
        ConditionBlock, Term("cbranch", R(ConditionBlock, 2), CoreBlock, TermBlock))

\* codegen.py:157-172  the loop core up to args: the row is loaded
core_args(forest_, func) ==
    EmitLoads(
        EmitPtrs(EmitAll(IRBuilder(func, CoreBlock), CoreBlock,
                     <<Instr("load", "", <<loop_iter>>),
                       Instr("mul", "", <<loop_iter_reg, C(iconst(n_args(forest_)))>>)>>),
                 CoreBlock, 0, n_args(forest_), R(CoreBlock, 2)),
        CoreBlock, 0, forest_.features, 4, <<>>)

\* codegen.py:174-178  the trees are called and summed
tree_calls(loaded, tree_funcs) ==
    EmitCalls(Emit(loaded.func, CoreBlock, Call(tree_funcs[1], loaded.args)),
              CoreBlock, 2, tree_funcs, loaded.args, Reg(loaded.func, CoreBlock, 1))

\* codegen.py:183-190  after the objective: an error goes to the caller, else
\* the loop core is finished and the terminal block populated
loop_end(o, ptr) ==
    IF o.err # "" THEN Raised(o.func, o.err)
    ELSE Returned(Terminate(IRBuilder(core_tail(o.func, o.res, ptr), TermBlock),
                            TermBlock, Term("ret_void", NoOperand, 0, 0)),
                  NoOperand)

\* codegen.py:179-190  out pointer, objective, store, increment, terminal block
core_end(forest_, summed) ==
    loop_end(populate_objective_func_block(
                 Emit(summed.func, CoreBlock, Instr("gep", "", <<A(1), loop_iter_reg>>)),
                 CoreBlock, summed.res,
                 forest_.objective_func, forest_.objective_func_config),
             Reg(summed.func, CoreBlock, 1))

\* codegen.py:174  tree_funcs[0] raises IndexError on a forest without trees
core_calls(forest_, loaded, tree_funcs) ==
    IF tree_funcs = <<>> THEN Raised(loaded.func, "IndexError")
    ELSE core_end(forest_, tree_calls(loaded, tree_funcs))

\* codegen.py:135-191.  The result holds the function as it is when the
\* call returns or raises, and the error raised ("" when none)
populate_forest_func(forest_, root_func, tree_funcs) ==
    core_calls(forest_,
               core_args(forest_, condition_block(setup_block(root_func))),
               tree_funcs)

\* ir.Module(): no function yet
EmptyModule == [functions |-> <<>>, intrinsics |-> {}]

\* codegen.py:53-57  the root function as declared
root_func_decl ==
    Function([kind |-> "forest_root", idx |-> 0], <<"ptr", "ptr", "i32", "i32">>)

\* the module once populate_forest_func has returned or raised r; the
\* intrinsics are declared (lines 200-204) when the objective is reached
populated(forest_, module_, tree_funcs, r) ==
    [module |-> [functions |-> module_.functions \o <<r.func>> \o tree_funcs,
                 intrinsics |-> module_.intrinsics \cup
                                (IF forest_.trees = <<>> THEN {}
                                 ELSE {"llvm.exp", "llvm.log", "llvm.copysign"})],
     err |-> r.err]

\* codegen.py:68-70  with the tree functions made
gen_forest_root(forest_, module_, tree_funcs) ==
    populated(forest_, module_, tree_funcs,
              populate_forest_func(forest_, root_func_decl,
                                   [i \in 1..Len(tree_funcs) |-> tree_funcs[i].name]))

\* codegen.py:27-70.  The module is the caller's object, populated in place:
\* the result is its content when gen_forest returns or raises
gen_forest(forest_, module_) ==
    gen_forest_root(forest_, module_,
                    [i \in 1..Len(forest_.trees) |-> make_tree(forest_.trees[i])])


(***************************************************************************)
(* The emitted code, run.  Memory is the two buffers of forest_root and    *)
(* the loop counter the invocation alloca'd; regs holds, per block, the    *)
(* values of the instructions run so far.                                  *)
(***************************************************************************)
ValOf(o, regs, args) ==
    CASE o.k = "const" -> o.c
      [] o.k = "arg"   -> args[o.i + 1]
      [] o.k = "reg"   -> regs[o.b][o.i]
      [] OTHER         -> Void

InBuffer(buf, ptr) == ptr.n >= 0 /\ ptr.n < Len(buf)

\* an access outside its buffer is undefined: the model's bounds keep every
\* access of the emitted code inside, and give such a load no value
Load(mem, ptr) ==
    CASE ptr.f = "slot" -> mem.slot
      [] ptr.f = "data" -> IF InBuffer(mem.data, ptr) THEN mem.data[ptr.n + 1] ELSE Void
      [] ptr.f = "out"  -> IF InBuffer(mem.out, ptr) THEN mem.out[ptr.n + 1] ELSE Void

Store(mem, v, ptr) ==
    CASE ptr.f = "slot" -> [mem EXCEPT !.slot = v]
      [] ptr.f = "out"  -> IF InBuffer(mem.out, ptr)
                           THEN [mem EXCEPT !.out[ptr.n + 1] = v,
                                            !.writes[ptr.n + 1] = @ + 1]
                           ELSE [mem EXCEPT !.stray = @ + 1]
      [] ptr.f = "data" -> [mem EXCEPT !.stray = @ + 1]

FuncIndex(mod, name) == CHOOSE i \in 1..Len(mod.functions) : mod.functions[i].name = name

RECURSIVE RunFrom(_, _, _, _, _)

RunFunction(mod, fi, args, mem) ==
    RunFrom(mod, fi, 1, args,
            [regs |-> [b \in 1..Len(mod.functions[fi].blocks) |-> <<>>],
             mem |-> mem, path |-> <<>>])

\* the value of one instruction (LLVM's semantics of the opcode)
EvalInstr(mod, ins, regs, args, mem) ==
    LET x == [j \in 1..Len(ins.a) |-> ValOf(ins.a[j], regs, args)]
    IN  CASE ins.op = "alloca" -> Ptr("slot", 0)
          [] ins.op = "load"   -> Load(mem, x[1])
          [] ins.op = "store"  -> Void
          [] ins.op = "gep"    -> Ptr(x[1].f, x[1].n + x[2].n)
          [] ins.op = "add"    -> iconst(Add32(x[1].n, x[2].n))
          [] ins.op = "mul"    -> iconst(Mul32(x[1].n, x[2].n))
          [] ins.op = "udiv"   -> iconst(UDiv(x[1].n, x[2].n))
          [] ins.op = "urem"   -> iconst(URem(x[1].n, x[2].n))
          [] ins.op = "lshr"   -> iconst(LShr(x[1].n, x[2].n))
          [] ins.op = "trunc"  -> I1(x[1].n % 2 = 1)
          [] ins.op = "extract_element" ->
                IF x[2].n >= 0 /\ x[2].n < Len(x[1].xs) THEN x[1].xs[x[2].n + 1]
                ELSE iconst(0)
          [] ins.op = "icmp_signed"   ->
                I1(IF ins.p = "<" THEN x[1].n < x[2].n ELSE x[1].n <= x[2].n)
          [] ins.op = "icmp_unsigned" -> I1(ULT(x[1].n, x[2].n))
          [] ins.op = "fcmp_ordered"   -> I1(FCmpOrdered(ins.p, x[1], x[2]))
          [] ins.op = "fcmp_unordered" -> I1(FCmpUnordered(ins.p, x[1], x[2]))
          [] ins.op = "or_"    -> I1(x[1].n = 1 \/ x[2].n = 1)
          [] ins.op = "not_"   -> I1(x[1].n = 0)
          [] ins.op = "select" -> IF x[1].n = 1 THEN x[2] ELSE x[3]
          [] ins.op = "fptosi" -> FpToSi(x[1])
          [] ins.op = "fadd"   -> FAdd(x[1], x[2])
          [] ins.op = "fmul"   -> FMul(x[1], x[2])
          [] ins.op = "fdiv"   -> FDiv(x[1], x[2])
          [] ins.op = "call"   ->
                CASE ins.callee.kind = "llvm.exp" -> Sym("exp", x)
                  [] ins.callee.kind = "llvm.log" -> Sym("log", x)
                  [] ins.callee.kind = "llvm.copysign" -> CopySign(x[1], x[2])
                  [] OTHER -> RunFunction(mod, FuncIndex(mod, ins.callee), x, mem).ret

\* instruction i of block b of function fi
ExecInstr(mod, fi, b, i, args, st) ==
    LET ins == mod.functions[fi].blocks[b].instrs[i]
    IN  [st EXCEPT
            !.regs[b] = Append(@, EvalInstr(mod, ins, st.regs, args, st.mem)),
            !.mem = IF ins.op = "store"
                    THEN Store(@, ValOf(ins.a[1], st.regs, args),
                               ValOf(ins.a[2], st.regs, args))
                    ELSE @]

RECURSIVE ExecInstrs(_, _, _, _, _, _, _)
\* instructions i..hi of block b of function fi, in order: the state each
\* leaves is what the next one starts from
ExecInstrs(mod, fi, b, i, hi, args, st) ==
    IF i > hi THEN st
    ELSE CHOOSE r \in {ExecInstrs(mod, fi, b, i + 1, hi, args, s) :
                          s \in {ExecInstr(mod, fi, b, i, args, st)}} : TRUE

\* where the terminator of block b sends control (0: the function returns)
NextBlock(term, regs, args) ==
    CASE term.op = "cbranch" -> IF ValOf(term.x, regs, args).n = 1 THEN term.t ELSE term.f
      [] term.op = "branch"  -> term.t
      [] OTHER               -> 0

\* the terminator of block b, its instructions run leaving s1.  path lists
\* the blocks run, each with the value of the condition it branched or
\* selected on
AfterBlock(mod, fi, b, args, s1) ==
    LET blk == mod.functions[fi].blocks[b]
        term == mod.functions[fi].blocks[b].term[1]
        next == NextBlock(mod.functions[fi].blocks[b].term[1], s1.regs, args)
        entry == [b |-> b, name |-> blk.name,
                  comp |-> IF term.op = "cbranch" THEN ValOf(term.x, s1.regs, args)
                           ELSE IF blk.instrs # <<>>
                                   /\ blk.instrs[Len(blk.instrs)].op = "select"
                           THEN ValOf(blk.instrs[Len(blk.instrs)].a[1], s1.regs, args)
                           ELSE Void,
                  next |-> next]
    IN  IF next = 0
        THEN [ret |-> IF term.op = "ret" THEN ValOf(term.x, s1.regs, args) ELSE Void,
              st |-> [s1 EXCEPT !.path = Append(@, entry)]]
        ELSE RunFrom(mod, fi, next, args, [s1 EXCEPT !.path = Append(@, entry)])

\* block b and what follows it, to the function's return
RunFrom(mod, fi, b, args, st) ==
    CHOOSE r \in {AfterBlock(mod, fi, b, args, s1) :
                     s1 \in {ExecInstrs(mod, fi, b, 1,
                                        Len(mod.functions[fi].blocks[b].instrs), args,
                                        [st EXCEPT !.regs[b] = <<>>])}} : TRUE

\* forest_root(data, out, start, end) run to its return: the memory it leaves
\* and the registers of its blocks
forest_root(mod, data_, out_, writes_, start, end) ==
    RunFunction(mod, FuncIndex(mod, [kind |-> "forest_root", idx |-> 0]),
                <<Ptr("data", 0), Ptr("out", 0), iconst(start), iconst(end)>>,
                [data |-> data_, out |-> out_, writes |-> writes_,
                 slot |-> Void, stray |-> 0]).st


(***************************************************************************)
(* The forests and rows the model is run on.                               *)
(***************************************************************************)
MaxTrees == 2

Features == <<[is_categorical |-> FALSE], [is_categorical |-> TRUE]>>

NumKind(mt, dl, t) ==
    [split_feature |-> 0, threshold |-> dconst(t),
     decision_type |-> [is_categorical |-> FALSE, is_default_left |-> dl,
                        missing_type |-> mt],
     cat_threshold |-> <<>>]
CatKind(bits) ==
    [split_feature |-> 1, threshold |-> dconst(0),
     decision_type |-> [is_categorical |-> TRUE, is_default_left |-> FALSE,
                        missing_type |-> "MNone"],
     cat_threshold |-> bits]

MissingTypes == {"MNone", "MZero", "MNaN"}
NumKinds == {NumKind(mt, dl, t) : mt \in MissingTypes, dl \in BOOLEAN, t \in {-1, 1}}
\* bitsets: categories {1, 3}; {32, 34}; {31, 32} (the top bit of the first word)
CatKinds == {CatKind(<<10>>), CatKind(<<0, 5>>), CatKind(<<IntMin, 1>>)}
Kinds == NumKinds \cup CatKinds
FewKinds == {NumKind("MZero", TRUE, -1), NumKind("MNone", FALSE, 1),
             NumKind("MNaN", FALSE, -1), CatKind(<<10>>)}

\* leaf j of tree ti: distinct values of both signs
LeafValue(ti, j) ==
    dconst(IF j % 2 = 0 THEN j + 1 + 10 * ti ELSE -(j + 1 + 10 * ti))
Leaf(ti, j) == LeafNode(j, LeafValue(ti, j))
Dec(idx, kind, left, right) ==
    DecisionNode(idx, kind.split_feature, kind.threshold, kind.decision_type,
                 kind.cat_threshold, left, right)

LeafOnly(ti) == Tree(ti, <<Leaf(ti, 0)>>, 1, Features)
Stub(ti, k) == Tree(ti, <<Dec(0, k, 2, 3), Leaf(ti, 0), Leaf(ti, 1)>>, 1, Features)
LeftDeep(ti, k, kl) ==
    Tree(ti, <<Dec(0, k, 2, 3), Dec(1, kl, 4, 5), Leaf(ti, 2),
               Leaf(ti, 0), Leaf(ti, 1)>>, 1, Features)
RightDeep(ti, k, kr) ==
    Tree(ti, <<Dec(0, k, 2, 3), Leaf(ti, 0), Dec(1, kr, 4, 5),
               Leaf(ti, 1), Leaf(ti, 2)>>, 1, Features)
Full(ti, k, kl, kr) ==
    Tree(ti, <<Dec(0, k, 2, 3), Dec(1, kl, 4, 5), Dec(2, kr, 6, 7),
               Leaf(ti, 0), Leaf(ti, 1), Leaf(ti, 2), Leaf(ti, 3)>>, 1, Features)

Trees(ti) ==
    {LeafOnly(ti)}
    \cup {Stub(ti, k) : k \in Kinds}
    \cup {LeftDeep(ti, k, kl) : k \in Kinds, kl \in FewKinds}
    \cup {RightDeep(ti, k, kr) : k \in Kinds, kr \in FewKinds}
    \cup {Full(ti, k, kl, kr) : k \in {NumKind("MNaN", TRUE, 1), CatKind(<<0, 5>>)},
                                kl \in {NumKind("MZero", FALSE, 1), CatKind(<<10>>)},
                                kr \in {NumKind("MNone", TRUE, -1), CatKind(<<IntMin, 1>>)}}

\* the trees of the forests of several trees, taken in turn
PoolTree(ti) ==
    CASE ti % 3 = 0 -> Stub(ti, NumKind("MNaN", TRUE, 1))
      [] ti % 3 = 1 -> RightDeep(ti, CatKind(<<10>>), NumKind("MZero", TRUE, -1))
      [] ti % 3 = 2 -> LeafOnly(ti)

Objectives ==
    {"binary", "xentropy", "cross_entropy", "xentlambda", "cross_entropy_lambda",
     "poisson", "gamma", "tweedie", "regression", "regression_l1", "huber", "fair",
     "quantile", "mape", "lambdarank", "rank_xendcg", "custom"}
\* tags outside the enumerated set
OtherObjectives == {"multiclass", ""}
Configs ==
    {None, Str(<<>>), Str(<<"sqrt">>), Str(<<"sigmoid">>),
     Str(<<"sigmoid", ":", "1.0">>), Str(<<"sigmoid", ":", "2.0">>),
     Str(<<"sigmoid", ":", "0.0">>), Str(<<"sigmoid", ":", "-1.0">>),
     Str(<<"sigmoid", ":", "x">>), Str(<<"sigmoid", ":", "1.0", ":", "sqrt">>)}

\* one tree of every shape and kind; forests of 0..MaxTrees trees under three
\* objectives; one forest under every objective tag and config
Forests ==
    {Forest(<<t>>, Features, "regression", None) : t \in Trees(0)}
    \cup {Forest([i \in 1..n |-> PoolTree(i - 1)], Features, oc[1], oc[2]) :
             n \in 0..MaxTrees,
             oc \in {<<"binary", Str(<<"sigmoid", ":", "1.0">>)>>,
                      <<"regression", Str(<<"sqrt">>)>>,
                      <<"custom", None>>}}
    \cup {Forest(<<PoolTree(0)>>, Features, o, c) :
             o \in Objectives \cup OtherObjectives, c \in Configs}

NumVals == {NaN, NegZero, dconst(0), dconst(-2), dconst(-1), dconst(1), dconst(2)}
CatVals == {NaN, dconst(-1), dconst(0), dconst(1), dconst(31), dconst(32),
            dconst(34), dconst(64)}
Rows == {<<x, c>> : x \in NumVals, c \in CatVals}

(***************************************************************************)
(* Code generation, then the emitted forest_root scoring single rows.      *)
(***************************************************************************)
Idle ==
    /\ data = <<>> /\ out = <<>> /\ writes = <<>> /\ calls = <<>> /\ slot = <<>>
    /\ row = <<>> /\ treeOut = <<>> /\ visited = <<>> /\ out0 = <<>>
    /\ cacheFile = <<>> /\ engines = <<>>

Init ==
    /\ forest \in Forests
    /\ module = EmptyModule
    /\ status = "new"
    /\ Idle

\* the caller: gen_forest(forest, module) on a fresh module
GenForest ==
    /\ status = "new"
    /\ LET r == gen_forest(forest, module)
       IN  /\ module' = r.module
           /\ status' = IF r.err = "" THEN "ok" ELSE r.err
    /\ UNCHANGED <<forest, data, out, writes, calls, slot, row, treeOut, visited,
                   out0, cacheFile, engines>>

\* the call instructions of the loop core that call a tree, in block order
TreeCalls(mod) ==
    LET instrs == mod.functions[1].blocks[CoreBlock].instrs
    IN  SelectSeq([i \in 1..Len(instrs) |-> i],
                  LAMBDA i : instrs[i].op = "call" /\ instrs[i].callee.kind = "tree")

\* block b of forest_root, the first function of the module
RootBlock(b) == module.functions[1].blocks[b]

\* what the tree calls of the loop core were given and returned, read off
\* the registers st of a run of forest_root
Observed(st) ==
    [k \in 1..Len(TreeCalls(module)) |->
        [callee |-> RootBlock(CoreBlock).instrs[TreeCalls(module)[k]].callee,
         args |-> [j \in 1..Len(RootBlock(CoreBlock).instrs[TreeCalls(module)[k]].a) |->
                      ValOf(RootBlock(CoreBlock).instrs[TreeCalls(module)[k]].a[j],
                            st.regs,
                            <<Ptr("data", 0), Ptr("out", 0), iconst(0), iconst(1)>>)],
         ret |-> st.regs[CoreBlock][TreeCalls(module)[k]]]]

\* the blocks every tree function runs on the arguments it was observed with
Visited(r, observed) ==
    [k \in 1..Len(observed) |->
        RunFunction(module, FuncIndex(module, observed[k].callee), observed[k].args,
                    [data |-> r, out |-> <<Void>>, writes |-> <<0>>,
                     slot |-> Void, stray |-> 0]).st.path]

Scoring(r, st) ==
    /\ row' = r
    /\ data' = r
    /\ out' = st.mem.out
    /\ writes' = st.mem.writes
    /\ treeOut' = Observed(st)
    /\ visited' = Visited(r, Observed(st))

\* forest_root(r, out, 0, 1) on a one-row buffer
Score(r) ==
    /\ status = "ok"
    /\ row = <<>>
    /\ Scoring(r, forest_root(module, r, <<Void>>, <<0>>, 0, 1))
    /\ UNCHANGED <<forest, module, status, calls, slot, out0, cacheFile, engines>>

Next ==
    \/ GenForest
    \/ \E r \in Rows : Score(r)

Spec == Init /\ [][Next]_vars

(***************************************************************************)
(* The reference scorer of the specification (LightGBM's decision rules):  *)
(* what the emitted code is compared with.                                 *)
(***************************************************************************)
IsZero(v) == ~v.nan /\ v.n = 0

\* MNone: a NaN is the value 0.0; MZero: zero and NaN are missing; MNaN: NaN
\* is missing; a missing value follows default_left
RefNumericalLeft(node, v) ==
    LET mt == node.decision_type.missing_type
        dl == node.decision_type.is_default_left
        t == Num(node.threshold)
    IN  CASE mt = "MNone" -> (IF v.nan THEN 0 <= t ELSE Num(v) <= t)
          [] mt = "MZero" -> (IF v.nan \/ IsZero(v) THEN dl ELSE Num(v) <= t)
          [] mt = "MNaN"  -> (IF v.nan THEN dl ELSE Num(v) <= t)

\* bit k (0..31) of a 32-bit word given as its two's complement value
BitOf(word, k) ==
    IF k = 31 THEN word < 0
    ELSE ((IF word < 0 THEN word - IntMin ELSE word) \div (2 ^ k)) % 2 = 1

\* category c is in the packed bitset
InBitset(bits, c) ==
    /\ 0 <= c
    /\ c < 32 * Len(bits)
    /\ BitOf(bits[(c \div 32) + 1], c % 32)

\* a category goes left iff its bit is set; a NaN goes right
RefCategoricalLeft(node, v) == ~v.nan /\ InBitset(node.cat_threshold, Num(v))

RefLeft(node, r) ==
    IF node.decision_type.is_categorical
    THEN RefCategoricalLeft(node, r[node.split_feature + 1])
    ELSE RefNumericalLeft(node, r[node.split_feature + 1])

RECURSIVE RefLeafAt(_, _, _)
\* the leaf the traversal from node p reaches
RefLeafAt(tree, p, r) ==
    IF tree.nodes[p].is_leaf THEN p
    ELSE IF RefLeft(tree.nodes[p], r) THEN RefLeafAt(tree, tree.nodes[p].left, r)
    ELSE RefLeafAt(tree, tree.nodes[p].right, r)

RefTree(tree, r) == tree.nodes[RefLeafAt(tree, tree.root_node, r)].value

RECURSIVE RefSum(_, _, _)
\* the sum of the first k trees, added in order
RefSum(f, k, r) ==
    IF k = 1 THEN RefTree(f.trees[1], r)
    ELSE FAdd(RefSum(f, k - 1, r), RefTree(f.trees[k], r))

RefSigmoid(alpha, x) ==
    FDiv(dconst(1), FAdd(dconst(1), Sym("exp", <<FMul(dconst(-alpha), x)>>)))

\* the table of objective transforms
RefObjective(objective, config, x) ==
    CASE objective = "binary" -> RefSigmoid(FloatOf(SplitSecond(config.toks)[1]), x)
      [] objective \in {"xentropy", "cross_entropy"} -> RefSigmoid(1, x)
      [] objective \in {"xentlambda", "cross_entropy_lambda"} ->
            Sym("log", <<FAdd(dconst(1), Sym("exp", <<x>>))>>)
      [] objective \in {"poisson", "gamma", "tweedie"} -> Sym("exp", <<x>>)
      [] objective \in {"regression", "regression_l1", "huber", "fair", "quantile",
                        "mape"} ->
            IF ~config.none /\ Contains(config, "sqrt")
            THEN CopySign(FMul(x, x), x) ELSE x
      [] OTHER -> x

RefScore(f, r) ==
    RefObjective(f.objective_func, f.objective_func_config, RefSum(f, Len(f.trees), r))

(***************************************************************************)
(* What a run of a tree function shows of a decision node.                 *)
(***************************************************************************)
Scored == status = "ok" /\ row # <<>>

TreeFunc(k) == module.functions[FuncIndex(module, TreeName(forest.trees[k]))]

\* the position in the tree of the decision node a block is named after
NodeOf(tree, name) ==
    CHOOSE p \in 1..Len(tree.nodes) :
        ~tree.nodes[p].is_leaf /\ tree.nodes[p].idx = name.idx

\* the entries of tree k's path that are node blocks of decision nodes
NodeEntries(k) == {j \in 1..Len(visited[k]) : visited[k][j].name.kind = "node"}

\* the last block of the node entered at entry j: its bitset-compare block
\* when the range check sent control there
LastOf(k, j) ==
    IF j < Len(visited[k]) /\ visited[k][j + 1].name.kind = "cat_bitset_comp"
    THEN j + 1 ELSE j

\* the run left the node entered at entry j through its left child: control
\* went to the left child's block, or the function returned the left leaf's value
WentLeft(k, j) ==
    LET tree == forest.trees[k]
        node == tree.nodes[NodeOf(tree, visited[k][j].name)]
        e == visited[k][LastOf(k, j)]
    IN  IF e.next # 0
        THEN TreeFunc(k).blocks[e.next].name = NodeName(tree.nodes[node.left])
        ELSE treeOut[k].ret = tree.nodes[node.left].value

\* C1: the emitted forest_root stores the reference score: one call per tree
\* in Forest.trees order, each returning the leaf the reference traversal
\* reaches, summed in that order, the objective applied to the sum
ScoringEquivalence ==
    Scored =>
        /\ Len(treeOut) = Len(forest.trees)
        /\ \A k \in 1..Len(treeOut) :
              /\ treeOut[k].callee = TreeName(forest.trees[k])
              /\ treeOut[k].ret = RefTree(forest.trees[k], row)
        /\ out = <<RefScore(forest, row)>>

ScoringWitness ==
    /\ Scored
    /\ Len(forest.trees) = 2
    /\ forest.objective_func = "binary"
    /\ row[1] = NaN
    /\ row[2] = NaN

\* C2: the comparison emitted for a numerical decision node is true exactly
\* when the reference routes the input left
NumericalRouting ==
    Scored =>
        \A k \in 1..Len(visited) : \A j \in NodeEntries(k) :
            LET tree == forest.trees[k]
                node == tree.nodes[NodeOf(tree, visited[k][j].name)]
            IN  ~node.decision_type.is_categorical =>
                   /\ (visited[k][j].comp.n = 1) =
                         RefNumericalLeft(node, treeOut[k].args[node.split_feature + 1])
                   /\ WentLeft(k, j) = (visited[k][j].comp.n = 1)

NumericalWitness ==
    /\ Scored
    /\ \E k \in 1..Len(visited) : \E j \in NodeEntries(k) :
          LET tree == forest.trees[k]
              node == tree.nodes[NodeOf(tree, visited[k][j].name)]
          IN  /\ ~node.decision_type.is_categorical
              /\ node.decision_type.missing_type = "MZero"
              /\ node.decision_type.is_default_left
              /\ Num(node.threshold) < 0
              /\ treeOut[k].args[node.split_feature + 1] = NegZero
              /\ WentLeft(k, j)

\* C3: a categorical decision node routes the i32 input v left iff
\* 0 <= v < 32*|B| and bit (v mod 32) of word B[v div 32] is set
CategoricalRouting ==
    Scored =>
        \A k \in 1..Len(visited) : \A j \in NodeEntries(k) :
            LET tree == forest.trees[k]
                node == tree.nodes[NodeOf(tree, visited[k][j].name)]
                v == treeOut[k].args[node.split_feature + 1]
            IN  node.decision_type.is_categorical =>
                   /\ v.ty = "i32"
                   /\ WentLeft(k, j) = InBitset(node.cat_threshold, v.n)

CategoricalWitness ==
    /\ Scored
    /\ \E k \in 1..Len(visited) : \E j \in NodeEntries(k) :
          LET tree == forest.trees[k]
              node == tree.nodes[NodeOf(tree, visited[k][j].name)]
          IN  /\ node.decision_type.is_categorical
              /\ treeOut[k].args[node.split_feature + 1] = iconst(IntMin)
              /\ row[2] = NaN
              /\ ~WentLeft(k, j)

\* the tree function emitted with no node fused: every decision node gets a
\* conditional branch to a block per child
Unfused(tree) ==
    [functions |->
        <<gen_tree(tree, Function(TreeName(tree), <<"f64", "i32">>), FALSE)>>,
     intrinsics |-> {}]

\* the run of tree k ended in a fused select
EndsFused(k) ==
    LET e == visited[k][Len(visited[k])]
        blk == TreeFunc(k).blocks[e.b]
    IN  blk.instrs # <<>> /\ blk.instrs[Len(blk.instrs)].op = "select"

\* C4: every tree function returns what its un-fused emission returns
FusionEquivalence ==
    Scored =>
        \A k \in 1..Len(treeOut) :
            treeOut[k].ret =
                RunFunction(Unfused(forest.trees[k]), 1, treeOut[k].args,
                            [data |-> row, out |-> <<Void>>, writes |-> <<0>>,
                             slot |-> Void, stray |-> 0]).ret

FusionWitness ==
    /\ Scored
    /\ \E k \in 1..Len(treeOut) :
          /\ EndsFused(k)
          /\ visited[k][Len(visited[k])].name.kind = "cat_bitset_comp"
          /\ visited[k][Len(visited[k])].comp.n = 1


(***************************************************************************)
(* The shape of the emitted module.                                        *)
(***************************************************************************)
RECURSIVE BlocksBelow(_, _)
\* the names of the blocks the emission of node p allocates: one per child of
\* a decision node whose children are not both leaves, the right child's of a
\* categorical node whose children are, the bitset-compare block of a
\* categorical node
BlocksBelow(tree, p) ==
    LET node == tree.nodes[p]
        left == tree.nodes[node.left]
        right == tree.nodes[node.right]
        both_leaves == left.is_leaf /\ right.is_leaf
        is_cat == node.decision_type.is_categorical
    IN  IF node.is_leaf THEN {}
        ELSE (IF is_cat THEN {[kind |-> "cat_bitset_comp", idx |-> node.idx]} ELSE {})
             \cup (IF ~both_leaves THEN {NodeName(left), NodeName(right)}
                   ELSE IF is_cat THEN {NodeName(right)} ELSE {})
             \cup (IF both_leaves THEN {}
                   ELSE BlocksBelow(tree, node.left) \cup BlocksBelow(tree, node.right))

ExpectedBlocks(tree) ==
    {NodeName(tree.nodes[tree.root_node])} \cup BlocksBelow(tree, tree.root_node)

Terminated(func, b) == Len(func.blocks[b].term) = 1

\* the positions in the log of the events of kind ev on block b
EventsOn(func, ev, b) == {i \in 1..Len(func.log) : func.log[i] = Event(ev, b)}
\* the positions at which block b is written to: a builder is put on it, an
\* instruction or a terminator is appended to it
Populating(func, b) ==
    EventsOn(func, "builder", b) \cup EventsOn(func, "instr", b)
        \cup EventsOn(func, "term", b)

\* C10: the blocks of every tree function are the root block, the child
\* blocks of the nodes that are not fused, the right-child block of a fused
\* categorical node and the bitset-compare blocks; each is populated once and
\* holds one terminator, a ret or a conditional branch to blocks of the
\* function, emitted before the blocks of the children are populated
BlockStructure ==
    status # "new" =>
        \A k \in 1..Len(forest.trees) :
            LET f == TreeFunc(k)
                n == Len(f.blocks)
            IN  /\ {f.blocks[b].name : b \in 1..n} = ExpectedBlocks(forest.trees[k])
                /\ n = Cardinality(ExpectedBlocks(forest.trees[k]))
                /\ \A b \in 1..n :
                      /\ f.blocks[b].builders = 1
                      /\ Terminated(f, b)
                      /\ Cardinality(EventsOn(f, "term", b)) = 1
                      /\ f.blocks[b].term[1].op \in {"ret", "cbranch"}
                      /\ f.blocks[b].term[1].op = "cbranch" =>
                            \A c \in {f.blocks[b].term[1].t, f.blocks[b].term[1].f} :
                               /\ c \in 1..n
                               /\ f.blocks[c].name.kind \in {"node", "leaf"} =>
                                     \A i \in EventsOn(f, "term", b) :
                                        \A j \in Populating(f, c) : i < j

BlockStructureWitness ==
    /\ status # "new"
    /\ Len(forest.trees) = 1
    /\ Len(TreeFunc(1).blocks) = 8
    /\ \E b \in 1..8 :
          /\ TreeFunc(1).blocks[b].name.kind = "cat_bitset_comp"
          /\ TreeFunc(1).blocks[b].term[1].op = "ret"

RootFunc == module.functions[1]

\* one complete tree_<i> per tree and a complete forest_root of four blocks
ModuleComplete ==
    /\ Len(module.functions) = 1 + Len(forest.trees)
    /\ RootFunc.name.kind = "forest_root"
    /\ Len(RootFunc.blocks) = 4
    /\ \A b \in 1..4 : Terminated(RootFunc, b)
    /\ \A k \in 1..Len(forest.trees) :
          \A b \in 1..Len(TreeFunc(k).blocks) : Terminated(TreeFunc(k), b)

Failed == status \notin {"new", "ok"}

\* C7 as claimed, for the forests of at least one tree: gen_forest completes
\* with a complete module, or fails and the caller's module holds nothing of
\* the failed run
NoPartialContent ==
    /\ status = "ok" => ModuleComplete
    /\ (Failed /\ forest.trees # <<>>) => module = EmptyModule

\* C7 as the code has it: gen_forest completes with a complete module, or
\* fails and leaves in the caller's module what it had emitted: every tree
\* function, complete, and a forest_root whose setup and loop-condition
\* blocks are terminated, whose loop-core block has no terminator and whose
\* term block is empty
CompleteOrPartial ==
    /\ status = "ok" => ModuleComplete
    /\ Failed =>
          /\ Len(module.functions) = 1 + Len(forest.trees)
          /\ \A k \in 1..Len(forest.trees) :
                \A b \in 1..Len(TreeFunc(k).blocks) : Terminated(TreeFunc(k), b)
          /\ Len(RootFunc.blocks) = 4
          /\ Terminated(RootFunc, SetupBlock)
          /\ Terminated(RootFunc, ConditionBlock)
          /\ RootFunc.blocks[CoreBlock].term = <<>>
          /\ RootFunc.blocks[CoreBlock].instrs # <<>>
          /\ RootFunc.blocks[TermBlock].term = <<>>
          /\ RootFunc.blocks[TermBlock].instrs = <<>>

PartialWitness ==
    /\ status = "ValueError: objective"
    /\ Len(module.functions) = 2
    /\ RootFunc.blocks[TermBlock].term = <<>>

\* the config of a binary objective carries an alpha: a number after the first ":"
HasAlpha(config) ==
    /\ ~config.none
    /\ Colons(config.toks) # {}
    /\ IsFloat(SplitSecond(config.toks))
Alpha(config) == FloatOf(SplitSecond(config.toks)[1])

\* C8 as claimed: code generation fails iff the tag is outside the enumerated
\* set or the tag is binary and the alpha parsed from the config is <= 0
FailsIffRejected ==
    (status # "new" /\ forest.trees # <<>>) =>
        (Failed <=>
            \/ forest.objective_func \notin Objectives
            \/ /\ forest.objective_func = "binary"
               /\ HasAlpha(forest.objective_func_config)
               /\ Alpha(forest.objective_func_config) <= 0)

\* C8 as the code has it: code generation fails iff the tag is outside the
\* enumerated set, or the tag is binary and the config carries no alpha (it is
\* None, has no ":", or what follows the first ":" is no number) or an
\* alpha <= 0
FailsIffRejectedOrUnparsed ==
    (status # "new" /\ forest.trees # <<>>) =>
        (Failed <=>
            \/ forest.objective_func \notin Objectives
            \/ /\ forest.objective_func = "binary"
               /\ \/ ~HasAlpha(forest.objective_func_config)
                  \/ Alpha(forest.objective_func_config) <= 0)

RejectedWitness ==
    /\ status = "ValueError: sigmoid"
    /\ forest.objective_func = "binary"
    /\ Alpha(forest.objective_func_config) = 0



(***************************************************************************)
(* The emitted forest_root run on row ranges of one data buffer, an        *)
(* invocation at a time or by threads, a loop step at a time.              *)
(***************************************************************************)
NRows == 3

RowPool == <<<<dconst(2), dconst(1)>>, <<NaN, dconst(32)>>, <<dconst(-2), NaN>>>>
\* the flat row-major buffer of NRows rows, row i taken from the pool in turn
DataBuffer(shift) ==
    [j \in 1..(2 * NRows) |->
        RowPool[((((j - 1) \div 2) + shift) % 3) + 1][((j - 1) % 2) + 1]]
DataBuffers == {DataBuffer(0), DataBuffer(1)}
OutBuffers == {[i \in 1..NRows |-> dconst(900 + i)], [i \in 1..NRows |-> NaN]}
RunForests ==
    {Forest(<<PoolTree(0), PoolTree(1)>>, Features, "binary",
            Str(<<"sigmoid", ":", "1.0">>)),
     Forest(<<PoolTree(1)>>, Features, "regression", None)}

\* an invocation forest_root(data, out, start, end_); it is entered once the
\* invocation numbered after (if any) has returned
Invocation(start, end_, after) ==
    [start |-> start, end_ |-> end_, after |-> after, pc |-> "setup",
     regs |-> [b \in 1..4 |-> <<>>], stray |-> 0]

\* codegen.py:142 with one counter for all invocations
SlotShared(t) == 1

\* codegen.py:142  alloca in the setup block: every invocation has its own
\* loop-idx slot on its own stack frame
SlotOf(t) == t

ArgsOf(t) ==
    <<Ptr("data", 0), Ptr("out", 0), iconst(calls[t].start), iconst(calls[t].end_)>>
Mem(t) ==
    [data |-> data, out |-> out, writes |-> writes, slot |-> slot[SlotOf(t)],
     stray |-> calls[t].stray]
FirstCall == TreeCalls(module)[1]
FirstStore ==
    CHOOSE i \in 1..Len(RootBlock(CoreBlock).instrs) :
        /\ RootBlock(CoreBlock).instrs[i].op = "store"
        /\ \A j \in 1..(i - 1) : RootBlock(CoreBlock).instrs[j].op # "store"

\* invocation t has run instructions up to hi of block b, leaving st; when hi
\* is the block's last its terminator is taken; pcs names where it goes
Ran(t, b, hi, pcs, st) ==
    /\ out' = st.mem.out
    /\ writes' = st.mem.writes
    /\ slot' = [slot EXCEPT ![SlotOf(t)] = st.mem.slot]
    /\ calls' = [calls EXCEPT
          ![t].regs = st.regs,
          ![t].stray = st.mem.stray,
          ![t].pc = IF hi < Len(RootBlock(b).instrs) THEN pcs[1]
                    ELSE pcs[NextBlock(RootBlock(b).term[1], st.regs, ArgsOf(t)) + 1]]

\* invocation t runs instructions lo..hi of block b of forest_root
Step(t, from, b, lo, hi, pcs) ==
    /\ status = "ok"
    /\ calls[t].pc = from
    /\ \E st \in {ExecInstrs(module, 1, b, lo, hi, ArgsOf(t),
                              [regs |-> IF lo = 1
                                        THEN [calls[t].regs EXCEPT ![b] = <<>>]
                                        ELSE calls[t].regs,
                               mem |-> Mem(t), path |-> <<>>])} :
          Ran(t, b, hi, pcs, st)
    /\ UNCHANGED <<forest, module, status, data, row, treeOut, visited, out0,
                   cacheFile, engines>>

\* codegen.py:139-145  alloca loop-idx, store start_index, branch
Setup(t) ==
    /\ IF calls[t].after = 0 THEN TRUE ELSE calls[calls[t].after].pc = "done"
    /\ Step(t, "setup", SetupBlock, 1, Len(RootBlock(SetupBlock).instrs),
            <<"done", "", "load_counter", "", "">>)

\* codegen.py:150  load(loop_iter)
LoadCounter(t) ==
    Step(t, "load_counter", ConditionBlock, 1, 1, <<"compare">>)

\* codegen.py:150-153  icmp_signed against end_index, cbranch
Compare(t) ==
    Step(t, "compare", ConditionBlock, 2, Len(RootBlock(ConditionBlock).instrs),
         <<"done", "", "", "load_row", "return">>)

\* codegen.py:160-172  the counter and the row's features into registers
LoadRow(t) ==
    Step(t, "load_row", CoreBlock, 1, FirstCall - 1, <<"call_trees">>)

\* codegen.py:174-182  call the trees, sum, apply the objective
CallTrees(t) ==
    Step(t, "call_trees", CoreBlock, FirstCall, FirstStore - 1, <<"store_out">>)

\* codegen.py:183  store(res, ptr)
StoreOut(t) ==
    Step(t, "store_out", CoreBlock, FirstStore, FirstStore, <<"increment">>)

\* codegen.py:184-186  add 1, store to loop_iter, branch to the condition
Increment(t) ==
    Step(t, "increment", CoreBlock, FirstStore + 1, Len(RootBlock(CoreBlock).instrs),
         <<"done", "", "load_counter", "", "">>)

\* codegen.py:190  ret_void
Return(t) ==
    Step(t, "return", TermBlock, 1, 0, <<"done">>)

Thread(t) ==
    \/ Setup(t) \/ LoadCounter(t) \/ Compare(t) \/ LoadRow(t)
    \/ CallTrees(t) \/ StoreOut(t) \/ Increment(t) \/ Return(t)

NextRun ==
    \/ \E t \in DOMAIN calls : Setup(t)
    \/ \E t \in DOMAIN calls : LoadCounter(t)
    \/ \E t \in DOMAIN calls : Compare(t)
    \/ \E t \in DOMAIN calls : LoadRow(t)
    \/ \E t \in DOMAIN calls : CallTrees(t)
    \/ \E t \in DOMAIN calls : StoreOut(t)
    \/ \E t \in DOMAIN calls : Increment(t)
    \/ \E t \in DOMAIN calls : Return(t)

\* the module is the one gen_forest made of the forest
InitRun(forests, buffers, outs) ==
    /\ forest \in forests
    /\ module = gen_forest(forest, EmptyModule).module
    /\ status = "ok"
    /\ data \in buffers
    /\ out0 \in outs
    /\ out = out0
    /\ writes = [i \in 1..NRows |-> 0]
    /\ row = <<>> /\ treeOut = <<>> /\ visited = <<>>
    /\ cacheFile = <<>> /\ engines = <<>>

\* one call on any range, or the range split at mid into two successive calls
InitBatch ==
    /\ InitRun(RunForests, DataBuffers, OutBuffers)
    /\ \/ \E s \in 0..NRows, e \in 0..NRows :
             calls = <<Invocation(s, e, 0)>>
       \/ \E s \in 0..NRows, m \in 0..NRows, e \in 0..NRows :
             /\ s <= m /\ m <= e
             /\ calls = <<Invocation(s, m, 0), Invocation(m, e, 1)>>
    /\ slot = [t \in DOMAIN calls |-> Void]

SpecBatch == InitBatch /\ [][NextRun]_vars

Range(c) == {i \in 1..NRows : c.start <= i - 1 /\ i - 1 < c.end_}

\* two threads on disjoint ranges of the same buffers: the rows are shared
\* out between them in every way that leaves at most one row to neither,
\* either thread taking the lower rows
InitPar ==
    /\ InitRun({Forest(<<PoolTree(0), PoolTree(1)>>, Features, "binary",
                       Str(<<"sigmoid", ":", "1.0">>))},
               {DataBuffer(0)}, {[i \in 1..NRows |-> dconst(900 + i)]})
    /\ \E e \in 0..NRows, s \in 0..NRows :
          /\ e <= s /\ s <= e + 1
          /\ \/ calls = <<Invocation(0, e, 0), Invocation(s, NRows, 0)>>
             \/ calls = <<Invocation(s, NRows, 0), Invocation(0, e, 0)>>
          /\ Range(calls[1]) \cap Range(calls[2]) = {}
    /\ slot = [t \in DOMAIN calls |-> Void]

\* the threads are scheduled by the operating system: none is held back forever
SpecPar ==
    /\ InitPar
    /\ [][NextRun]_vars
    /\ \A t \in 1..2 : WF_vars(Thread(t))

AllDone == \A t \in DOMAIN calls : calls[t].pc = "done"
NoWrites == [i \in 1..NRows |-> 0]
\* how many of the invocations have index i in their range
Covering(i) == Cardinality({t \in DOMAIN calls : i \in Range(calls[t])})
\* the score of row i alone
RowScore(i) ==
    forest_root(module, <<data[2 * i - 1], data[2 * i]>>, <<Void>>, <<0>>, 0, 1).mem.out[1]
\* out after forest_root(data, o, c.start, c.end_) run to its return
After(o, c) == forest_root(module, data, o, NoWrites, c.start, c.end_).mem.out

\* C5: the calls made one after the other leave out as the single call over
\* the whole range does; every index of a call's range is written exactly once
\* with the score of its own row, no other index is written, and a call with
\* start >= end writes nothing
BatchingIdempotence ==
    /\ \A i \in 1..NRows : writes[i] <= Covering(i)
    /\ \A t \in DOMAIN calls : calls[t].stray = 0
    /\ AllDone =>
          /\ out = After(out0, [start |-> calls[1].start,
                                end_ |-> calls[Len(calls)].end_])
          /\ \A i \in 1..NRows :
                /\ writes[i] = Covering(i)
                /\ out[i] = IF Covering(i) = 1 THEN RowScore(i) ELSE out0[i]

BatchingWitness ==
    /\ AllDone
    /\ Len(calls) = 2
    /\ calls[1].start < calls[1].end_
    /\ calls[2].start < calls[2].end_
    /\ \A i \in Range(calls[1]) \cup Range(calls[2]) : out[i] # out0[i]

EmptyRangeWitness ==
    /\ AllDone
    /\ Len(calls) = 1
    /\ calls[1].start > calls[1].end_
    /\ out = out0

SafePar ==
    /\ \A i \in 1..NRows : writes[i] <= Covering(i)
    /\ \A t \in DOMAIN calls : calls[t].stray = 0
    /\ \A t \in DOMAIN calls :
          calls[t].pc \in {"load_counter", "compare", "load_row", "call_trees",
                           "store_out", "increment"}
             => slot[t].n \in calls[t].start..calls[t].end_
    /\ AllDone =>
          /\ out = After(After(out0, calls[1]), calls[2])
          /\ out = After(After(out0, calls[2]), calls[1])
          /\ \A i \in 1..NRows : writes[i] = Covering(i)

\* C6: under every interleaving of the loop steps of two invocations on
\* disjoint ranges both return, and out is then as after running them one
\* after the other in either order; each counter stays within its own
\* invocation's range and only indexes of the ranges are written, once each
ParallelInvocations == (<>AllDone) /\ []SafePar

ParallelWitness ==
    /\ calls[1].pc = "store_out"
    /\ calls[2].pc = "increment"
    /\ \E i \in Range(calls[2]) : writes[i] = 1
    /\ \E i \in Range(calls[1]) : writes[i] = 0

(***************************************************************************)
(* compile_module_to_asm and its object cache (llvm_binding.py:36-66).     *)
(* cacheFile is the file at cache_path: <<>> while it does not exist, else *)
(* the one-element sequence of its bytes.                                  *)
(***************************************************************************)
MaxCalls == 3

\* the modules handed to the compiler: those of three forests
CacheModules ==
    <<gen_forest(Forest(<<PoolTree(0)>>, Features, "regression", None),
                 EmptyModule).module,
      gen_forest(Forest(<<PoolTree(1)>>, Features, "regression", None),
                 EmptyModule).module,
      gen_forest(Forest(<<PoolTree(0), PoolTree(1)>>, Features, "binary",
                        Str(<<"sigmoid", ":", "1.0">>)),
                 EmptyModule).module>>

\* llvm_binding.py:60  finalize_object: the object code of the module's functions
ObjectOf(mod) == [format |-> "object", code |-> mod.functions]

\* llvm_binding.py:36-66 with the cached object checked against the module
compile_module_to_asm_checked(mod, cache_path, file) ==
    IF cache_path /\ file # <<>> /\ file = <<ObjectOf(mod)>>
    THEN [object |-> file[1], file |-> file, wrote |-> FALSE]
    ELSE IF cache_path
    THEN [object |-> ObjectOf(mod), file |-> <<ObjectOf(mod)>>, wrote |-> TRUE]
    ELSE [object |-> ObjectOf(mod), file |-> file, wrote |-> FALSE]

\* llvm_binding.py:36-66.  cache_path is whether one was passed; the result
\* is the object the engine runs and the file as the call leaves it
compile_module_to_asm(mod, cache_path, file) ==
    IF cache_path /\ file # <<>>
    THEN \* lines 50-52: getbuffer_func hands finalize_object the file's bytes
         [object |-> file[1], file |-> file, wrote |-> FALSE]
    ELSE IF cache_path
    THEN \* lines 54-56, 60: the module is compiled, notify_func writes the bytes
         [object |-> ObjectOf(mod), file |-> <<ObjectOf(mod)>>, wrote |-> TRUE]
    ELSE \* line 60: no object cache
         [object |-> ObjectOf(mod), file |-> file, wrote |-> FALSE]

InitCache ==
    /\ forest = <<>>
    /\ module = EmptyModule
    /\ status = "new"
    /\ Idle

\* a call compile_module_to_asm(CacheModules[m], cache_path)
Compiled(m, cache_path, r) ==
    /\ cacheFile' = r.file
    /\ engines' = Append(engines,
          [given |-> m, cached |-> cache_path, existed |-> cacheFile # <<>>,
           object |-> r.object, wrote |-> r.wrote])

CompileCached(m) ==
    /\ Len(engines) < MaxCalls
    /\ Compiled(m, TRUE, compile_module_to_asm(CacheModules[m], TRUE, cacheFile))
    /\ UNCHANGED <<forest, module, status, data, out, writes, calls, slot, row,
                   treeOut, visited, out0>>

CompileUncached(m) ==
    /\ Len(engines) < MaxCalls
    /\ Compiled(m, FALSE, compile_module_to_asm(CacheModules[m], FALSE, cacheFile))
    /\ UNCHANGED <<forest, module, status, data, out, writes, calls, slot, row,
                   treeOut, visited, out0>>

NextCache ==
    \/ \E m \in DOMAIN CacheModules : CompileCached(m)
    \/ \E m \in DOMAIN CacheModules : CompileUncached(m)

SpecCache == InitCache /\ [][NextCache]_vars

\* the calls that passed cache_path, and the first of them
CachedCalls == {i \in 1..Len(engines) : engines[i].cached}
FirstCached == CHOOSE i \in CachedCalls : \A j \in CachedCalls : i <= j

\* C9: the first call that passes cache_path finds no file, compiles the
\* module it was given and writes its object to the file; every later such
\* call finds the file, runs the file's bytes whatever module it was given and
\* does not write: the file keeps the first module's object
CacheTrust ==
    /\ CachedCalls = {} => cacheFile = <<>>
    /\ CachedCalls # {} =>
          /\ ~engines[FirstCached].existed
          /\ engines[FirstCached].wrote
          /\ engines[FirstCached].object = ObjectOf(CacheModules[engines[FirstCached].given])
          /\ cacheFile = <<engines[FirstCached].object>>
          /\ \A i \in CachedCalls \ {FirstCached} :
                /\ engines[i].existed
                /\ ~engines[i].wrote
                /\ engines[i].object = engines[FirstCached].object

CacheWitness ==
    \E i \in CachedCalls, j \in CachedCalls :
        /\ i < j
        /\ engines[i].given # engines[j].given
        /\ engines[j].object = ObjectOf(CacheModules[engines[i].given])
        /\ engines[j].object # ObjectOf(CacheModules[engines[j].given])
====
